---- MODULE Spec2Model ----
(***************************************************************************)
(* A model of the DS learner's training loop (lib/learn_nn_ds.py, NL_DS)   *)
(* and of the subgoal orchestrator (imitate-task.py, main and its worker   *)
(* processes).                                                             *)
(*                                                                         *)
(* Floating point values are modelled as records [k, v] with k one of      *)
(* "fin", "inf", "ninf", "nan"; a finite value is an integer count of      *)
(* 1e-6/NumBatches, so that the mean of NumBatches minibatch losses, each  *)
(* a whole number of 1e-6, is exact.                                       *)
(*                                                                         *)
(* Python objects (networks, potentials) are modelled by an identity (the  *)
(* place and time of their creation) and a heap that maps the identities   *)
(* still referenced to their weights.  Weights are abstracted to the last  *)
(* write that produced them: two objects hold equal weights iff their      *)
(* heap entries are equal.                                                 *)
(***************************************************************************)
EXTENDS Integers, Sequences, FiniteSets, TLC

\* ------------------------------------------------------------------ bounds
MaxEpochs == 3        \* largest n_epochs passed to fit
NumBatches == 2       \* minibatches per epoch (len of the DataLoader)
MaxLoss == 1          \* largest ordinary minibatch loss, in units of 1e-6
ClipUnits == 2        \* loss_clip passed to fit, in units of 1e-6

\* The tolerance of the best-model test, in units of 1e-6.
Tol == 1

\* ------------------------------------------------------------- float values
Fin(n) == [k |-> "fin", v |-> n]
Inf == [k |-> "inf", v |-> 0]
NegInf == [k |-> "ninf", v |-> 0]
NaN == [k |-> "nan", v |-> 0]

\* A whole number x of 1e-6 in the model's fixed-point representation.
Micro(x) == Fin(x * NumBatches)

\* IEEE-754 a > b.
FGt(a, b) ==
    IF a.k = "nan" \/ b.k = "nan" THEN FALSE
    ELSE IF a.k = "inf" THEN b.k # "inf"
    ELSE IF a.k = "ninf" THEN FALSE
    ELSE IF b.k = "inf" THEN FALSE
    ELSE IF b.k = "ninf" THEN TRUE
    ELSE a.v > b.v

\* IEEE-754 a == b: NaN compares unequal to everything, itself included.
FEq(a, b) ==
    IF a.k = "nan" \/ b.k = "nan" THEN FALSE
    ELSE a = b

\* IEEE-754 a - b.
FSub(a, b) ==
    IF a.k = "nan" \/ b.k = "nan" THEN NaN
    ELSE IF a.k = "inf" THEN (IF b.k = "inf" THEN NaN ELSE Inf)
    ELSE IF a.k = "ninf" THEN (IF b.k = "ninf" THEN NaN ELSE NegInf)
    ELSE IF b.k = "inf" THEN NegInf
    ELSE IF b.k = "ninf" THEN Inf
    ELSE Fin(a.v - b.v)

RECURSIVE SumFin(_)
SumFin(s) == IF s = <<>> THEN 0 ELSE Head(s).v + SumFin(Tail(s))

IsFinite(x) == x.k = "fin"

\* np.nanmean-like: the mean of the finite entries only.
FMean_IgnoreNonFinite(s) ==
    LET f == SelectSeq(s, IsFinite)
    IN  IF f = <<>> THEN NaN ELSE Fin(SumFin(f) \div Len(f))

\* np.mean of a non-empty list of non-negative losses (no -inf among them).
FMean(s) ==
    IF \E i \in 1..Len(s) : s[i].k = "nan" THEN NaN
    ELSE IF \E i \in 1..Len(s) : s[i].k = "inf" THEN Inf
    ELSE Fin(SumFin(s) \div Len(s))

\* The minibatch losses the criterion can return: ordinary ones, one above
\* the ceiling, +inf and NaN.
LossValues ==
    {Micro(x) : x \in 0..MaxLoss} \cup {Micro(ClipUnits + 1), Inf, NaN}

\* ------------------------------------------------------------------ objects
\* _initialize_network with a branch for one more tag.
NetworkTypes_WithLstm == {"nn", "lnet", "sdsef", "snds", "lstm"}

\* Lines 262-279: the tags _initialize_network has a branch for; any other
\* raises NotImplementedError.
NetworkTypes == {"nn", "lnet", "sdsef", "snds"}

\* The kinds fit is explored with: "lnet" and "sdsef" differ from "nn" only in
\* the class _initialize_network instantiates, "snds" also has a potential.
FitNetworkTypes == {"nn", "snds"}

NoneObj == [role |-> "none", mk |-> "none", at |-> 0]
NetObj(mk, t) == [role |-> "net", mk |-> mk, at |-> t]
LpfObj(mk, t) == [role |-> "lpf", mk |-> mk, at |-> t]

\* Weights as last written by an initialisation (mk "ctor", "reinit",
\* "reinit_end") or by an optimizer step (mk "step") at a given time; nan: the
\* weights hold NaN.
Weights(mk, t, isnan) == [mk |-> mk, at |-> t, nan |-> isnan]

VARIABLES
    network_type,      \* self.__network_type
    nn_module,         \* self.__nn_module (an object identity)
    lpf,               \* self.__lpf (an object identity or NoneObj)
    heap,              \* weights of the referenced objects
    fpc,               \* position in fit: "ready", "loop", "after", "done"
    n_epochs,          \* fit's parameter
    stop_threshold,    \* fit's parameter
    epoch,             \* loop variable of the epoch loop
    batch,             \* minibatches of the current epoch already processed
    train_losses,      \* list of this epoch's minibatch losses
    optimizer,         \* [params: the network it updates, sched: is it the
                       \*  optimizer the LinearLR scheduler was built on,
                       \*  lr: the learning rate of its parameter group]
    best_train_loss,
    best_train_epoch,
    best_model,
    best_lpf,
    log                \* messages logged or printed so far

fitvars == <<network_type, nn_module, lpf, heap, fpc, n_epochs, stop_threshold,
             epoch, batch, train_losses, optimizer, best_train_loss,
             best_train_epoch, best_model, best_lpf, log>>

VARIABLES
    config,            \* the parsed config file
    mpc,               \* position in main: "start", "spawn", "join", "returned",
                       \*  "load", "post", "done", "raised"
    main_exc,          \* the exception main raised, "" if none
    data,              \* data["subgoal_i"], by subgoal index
    waypoint_position, \* main's variable of that name (set by the loading loop)
    ps,                \* the list of started processes (by worker index)
    joined,            \* how many processes of ps the join loop has waited for
    proc,              \* the worker processes, by index
    storage,           \* the model files on disk
    dirs,              \* the network kinds whose directory exists in the save dir
    policies,          \* main's list of loaded learners
    abandoned,         \* worker index -> its subgoal's files on disk when its
                       \*  join timed out
    rng                \* the state of main's process-wide random generators

mainvars == <<config, mpc, main_exc, data, waypoint_position, ps, joined, proc,
              storage, dirs, policies, abandoned, rng>>

fitvarsNoLog == <<network_type, nn_module, lpf, heap, fpc, n_epochs,
                  stop_threshold, epoch, batch, train_losses, optimizer,
                  best_train_loss, best_train_epoch, best_model, best_lpf>>


\* A logged or printed message; sub is the subgoal it is about, or NoSub.
NoSub == 0 - 1
Msg(m, i) == [msg |-> m, sub |-> i]

\* The potential belonging to a network (the snds model holds its potential
\* as a submodule, so an optimizer step on the network moves both).
HasLpf == network_type = "snds"

\* Keep only the objects still referenced.
Restrict(h, live) == [o \in (live \cap DOMAIN h) |-> h[o]]

\* _initialize_network: a fresh network (and potential for snds) replaces
\* self.__nn_module (and self.__lpf); for the other kinds self.__lpf is kept.
InitNetId(mk, t) == NetObj(mk, t)
InitLpfId(mk, t) == IF HasLpf THEN LpfObj(mk, t) ELSE lpf

InitializedHeap(h, mk, t) ==
    LET n == InitNetId(mk, t)
        l == InitLpfId(mk, t)
        w == Weights(mk, t, FALSE)
    IN  [o \in (DOMAIN h \cup {n} \cup (IF HasLpf THEN {l} ELSE {})) |->
            IF o = n \/ (HasLpf /\ o = l) THEN w ELSE h[o]]

\* ------------------------------------------------------- orchestrator data
NumSubgoals == 2      \* subgoals in the demonstration (num_subgoals)

Subgoals == 0..(NumSubgoals - 1)

\* Python's None and a present value, for the optional config entries.
None == {}
Some(x) == {x}

\* The learner_type values explored: a kind whose directory save creates
\* ("lnet" and "snds" go the same way), the kind whose directory it does not,
\* and an unknown tag.
LearnerTypes == {"nn", "sdsef", "lstm"}

\* time_stamp() of the earlier run whose files a load reads, and the values
\* it can return to the workers of this run.
PrevStamp == "t0"
Stamps == {"t1", "t2"}

\* load_hdf5_data(..., subgoal=i): the waypoint arrays of subgoal i; last_pos
\* stands for waypoint_position[-1].
SubgoalData(i) == [sub |-> i, last_pos |-> i]
NoData == [sub |-> NoSub, last_pos |-> NoSub]

\* imitate-task.py line 47 with subgoal left at its default None.
ModelName_NoIndex(learner_type, subgoal, ts) ==
    [model_name |-> "waypoint-test", learner_type |-> learner_type,
     subgoal |-> NoSub, time_stamp |-> ts]

\* imitate-task.py line 47: f'{model_name}-{learner_type}-subgoal{subgoal}-{time_stamp()}'.
ModelName(learner_type, subgoal, ts) ==
    [model_name |-> "waypoint-test", learner_type |-> learner_type,
     subgoal |-> subgoal, time_stamp |-> ts]

NoName == ModelName("", NoSub, "")

\* The state of a process's global random generators (numpy's and torch's):
\* set from a seed, or drawn from the operating system's entropy when the
\* process first uses them.
Seeded(s) == [src |-> "seed", v |-> s]
FromEntropy(e) == [src |-> "entropy", v |-> e]
Entropy == {1, 2}

\* The seeds a config file gives.
Seeds == {7}

\* What a worker process meets when it runs: the clock value time_stamp()
\* returns and the entropy its generators are seeded from.
WorkerEnvs == {[ts |-> "t1", e |-> 1], [ts |-> "t2", e |-> 2]}
PrevRng == FromEntropy(0)

\* The learner waypoint_policy builds and fits (lines 48, 72-74); draws is
\* the generator state its random draws (augmentation noise, initial weights,
\* minibatch order) were made from.
FittedModel(learner_type, d, r) ==
    [network |-> learner_type, trained_on |-> d.sub, goal |-> d.last_pos,
     draws |-> r]

NoModel == [network |-> "", trained_on |-> NoSub, goal |-> NoSub,
            draws |-> PrevRng]

\* <dir>/<network kind>/<model name>.pt and what it holds.
ModelFile(kind, name, model) == [kind |-> kind, name |-> name, model |-> model]

\* torch.save to a path: the file of that path is replaced.
WriteFile(files, f) ==
    {g \in files : ~(g.kind = f.kind /\ g.name = f.name)} \cup {f}

\* The files an earlier training run with this learner_type left behind.
PrevFile(learner_type, i) ==
    ModelFile(learner_type, ModelName(learner_type, i, PrevStamp),
              FittedModel(learner_type, SubgoalData(i), PrevRng))
PrevFiles(learner_type) == {PrevFile(learner_type, i) : i \in Subgoals}
PrevNames(learner_type) ==
    [k \in 1..NumSubgoals |-> ModelName(learner_type, k - 1, PrevStamp)]

NoProc == [st |-> "none", data |-> NoData, index |-> NoSub, name |-> NoName,
           model |-> NoModel]

\* main not started, for the specification of fit alone.
MainIdle ==
    /\ config = [learner_type |-> "nn", model_names |-> None, model_dir |-> None,
                 playback |-> FALSE, seed |-> None]
    /\ mpc = "idle"
    /\ rng = PrevRng
    /\ main_exc = ""
    /\ data = <<>>
    /\ waypoint_position = NoData
    /\ ps = <<>>
    /\ joined = 0
    /\ proc = [i \in Subgoals |-> NoProc]
    /\ storage = {}
    /\ dirs = {}
    /\ policies = <<>>
    /\ abandoned = <<>>

\* ------------------------------------------- waypoint_policy (one call of it)
VARIABLES
    wpc,               \* position in waypoint_policy: "idle", "start", "normalize",
                       \*  "clean", "augment", "construct", "fit", "plot", "save",
                       \*  "return", "returned", "raised"
    wp_args,           \* the arguments of the call
    waypoints,         \* waypoint_positions / waypoint_velocities, sample by sample
    wp_name,           \* the local name
    wp_goal,           \* the local goal
    wp_model,          \* the local model (the learner)
    wp_files,          \* the model files in save_dir
    wp_exc,            \* the exception the call raised, "" if none
    wp_trace           \* the steps of the call that have completed, in order

wpvars == <<wpc, wp_args, waypoints, wp_name, wp_goal, wp_model, wp_files,
            wp_exc, wp_trace>>

\* ------------------------------------- NL_DS objects that are saved and loaded
VARIABLES
    sl_learners,       \* the NL_DS objects, by identity
    sl_disk,           \* the files under the save directory
    sl_dirs,           \* the kind directories that exist under it
    sl_out             \* the last call made and the exception it raised

slvars == <<sl_learners, sl_disk, sl_dirs, sl_out>>

\* The two learners of a round trip: the one that is fitted and saved and
\* the fresh one a model is loaded into.
LearnerIds == {"a", "b"}

\* A network or potential object: its kind, the goal it was built with, its
\* weights (by whom they were initialised or fitted) and its training flag.
Module(kind, goal, w, training) ==
    [kind |-> kind, goal |-> goal, weights |-> w, training |-> training]
NoModule == Module("", NoSub, [by |-> "", how |-> ""], FALSE)
InitWeights(l) == [by |-> l, how |-> "init"]
FitWeights(l) == [by |-> l, how |-> "fit"]

NoCall == [op |-> "", learner |-> "", name |-> "", exc |-> ""]
Call(op, l, n, exc) == [op |-> op, learner |-> l, name |-> n, exc |-> exc]

SlIdle ==
    /\ sl_learners = <<>>
    /\ sl_disk = {}
    /\ sl_dirs = {}
    /\ sl_out = NoCall

\* ------------------------------------------------ playback_dataset (one call)
VARIABLES
    pbc,               \* position in playback_dataset: "idle", "start", "subgoal",
                       \*  "approach", "gripper", "done", "raised"
    pb_args,           \* the arguments of the call
    pb_i,              \* the loop variable i
    action_num,        \* the local action_num
    pb_near,           \* is the end-effector within the threshold of subgoal
                       \*  i's position (the loop test's distance, from obs)
    pb_action,         \* is the local action bound
    pb_grip,           \* iterations of the current gripper loop
    pb_queries,        \* (history) the <<policy position, subgoal>> pairs of
                       \*  the predict calls made
    pb_exit,           \* (history) subgoal -> how its approach loop ended
    pb_exc             \* the exception the call raised, "" if none

pbvars == <<pbc, pb_args, pb_i, action_num, pb_near, pb_action, pb_grip,
            pb_queries, pb_exit, pb_exc>>

PbIdle ==
    /\ pbc = "idle"
    /\ pb_args = [robosuite |-> TRUE, has_euler |-> TRUE, angular |-> FALSE]
    /\ pb_i = 0
    /\ action_num = 0
    /\ pb_near = FALSE
    /\ pb_action = FALSE
    /\ pb_grip = 0
    /\ pb_queries = {}
    /\ pb_exit = <<>>
    /\ pb_exc = ""

extvars == <<wpvars, slvars, pbvars>>

vars == <<fitvars, mainvars, extvars>>

MaxWaypoints == 2     \* largest number of samples of an input waypoint set

\* A (position, velocity) sample; vectors are modelled by integers, 0 being
\* the zero vector.
Sample(p, v) == [pos |-> p, vel |-> v]
Samples == {Sample(p, v) : p \in 1..2, v \in 0..1}
WaypointSets == UNION {[1..n -> Samples] : n \in 1..MaxWaypoints}

\* The learner waypoint_policy returns: its kind, its goal and the set it
\* was fitted on.
WpModel(network, goal, set) == [network |-> network, goal |-> goal, fit_set |-> set]
NoWpModel == WpModel("", NoSub, <<>>)

\* No call of waypoint_policy in this process.
WpIdle ==
    /\ wpc = "idle"
    /\ wp_args = [learner_type |-> "nn", subgoal |-> NoSub, normalize |-> None,
                  clean |-> FALSE, augment |-> FALSE, plot |-> FALSE]
    /\ waypoints = <<>>
    /\ wp_name = NoName
    /\ wp_goal = NoSub
    /\ wp_model = NoWpModel
    /\ wp_files = {}
    /\ wp_exc = ""
    /\ wp_trace = <<>>

ExtIdle == WpIdle /\ SlIdle /\ PbIdle

\* ---------------------------------------------------------------- NL_DS.fit
\* The state after NL_DS.__init__.
FitInit ==
    /\ network_type \in FitNetworkTypes
    /\ nn_module = NetObj("ctor", 0)
    /\ lpf = IF network_type = "snds" THEN LpfObj("ctor", 0) ELSE NoneObj
    /\ heap = [o \in ({NetObj("ctor", 0)} \cup
                      (IF network_type = "snds" THEN {LpfObj("ctor", 0)} ELSE {}))
                 |-> Weights("ctor", 0, FALSE)]
    /\ fpc = "ready"
    /\ n_epochs = 0
    /\ stop_threshold = 0
    /\ epoch = 0
    /\ batch = 0
    /\ train_losses = <<>>
    /\ optimizer = [params |-> NoneObj, sched |-> FALSE, lr |-> 0]
    /\ best_train_loss = Inf
    /\ best_train_epoch = 0
    /\ best_model = NoneObj
    /\ best_lpf = NoneObj
    /\ log = {}
    /\ MainIdle
    /\ ExtIdle

\* lr_end_factor in hundredths (fit's default, 0.01).
EndFactorPct == 1

\* Learning rates are in units of lr_initial / (100 * n_epochs).
LrInitial(ne) == 100 * ne

\* Lines 109-111: the rate LinearLR(start_factor=1.0, end_factor=lr_end_factor,
\* total_iters=n_epochs) gives its optimizer after k calls of step().
LinearLR(k, ne) == 100 * ne - (100 - EndFactorPct) * k

\* Line 160: scheduler.step() sets the rate of the optimizer the scheduler was
\* built on; any other optimizer keeps its rate.
SchedulerStep(opt, k, ne) ==
    IF opt.sched THEN [opt EXCEPT !.lr = LinearLR(k, ne)] ELSE opt

\* Lines 98-124: the optimizer and the scheduler are built on the current
\* network, and the best model starts as a reference to it (not a copy).
fit_begin(ne, st) ==
    /\ fpc = "ready"
    /\ n_epochs' = ne
    /\ stop_threshold' = st
    /\ optimizer' = [params |-> nn_module, sched |-> TRUE, lr |-> LrInitial(ne)]
    /\ best_train_loss' = Inf
    /\ best_train_epoch' = 0
    /\ best_model' = nn_module
    /\ best_lpf' = lpf
    /\ epoch' = 0
    /\ batch' = 0
    /\ train_losses' = <<>>
    /\ fpc' = "loop"
    /\ log' = log \cup {Msg("Starting the policy training sequence", NoSub)}
    /\ UNCHANGED <<network_type, nn_module, lpf, heap>>
    /\ UNCHANGED <<mainvars, extvars>>

\* Line 141: loss > loss_clip or loss == torch.nan.
Diverged(loss) == FGt(loss, Micro(ClipUnits)) \/ FEq(loss, NaN)

\* Lines 148-158: backward on the active network, then optimizer.step() on the
\* parameters the optimizer was built on.  Adam skips parameters without a
\* gradient, so an optimizer built on another network changes nothing.
OptimizerStep(h, loss, t) ==
    IF optimizer.params # nn_module THEN h
    ELSE LET w == Weights("step", t, h[nn_module].nan \/ loss.k = "nan")
         IN  [o \in DOMAIN h |->
                 IF o = nn_module \/ (HasLpf /\ o = lpf) THEN w ELSE h[o]]

\* The minibatch that diverged is tried again after the re-initialization.
NextBatch_Retry(b, diverged) == IF diverged THEN b ELSE b + 1

\* Lines 131 and 145: the for loop over the DataLoader goes on to the next
\* minibatch, after `continue` as after an update.
NextBatch(b, diverged) == b + 1

\* Lines 131-158: one iteration of the minibatch loop.  A network whose
\* weights hold NaN returns a NaN loss.
fit_minibatch(loss) ==
    LET t == epoch * NumBatches + batch IN
    /\ fpc = "loop"
    /\ batch < NumBatches
    /\ heap[nn_module].nan => loss = NaN
    /\ train_losses' = Append(train_losses, loss)
    /\ IF Diverged(loss)
       THEN /\ nn_module' = InitNetId("reinit", t)
            /\ lpf' = InitLpfId("reinit", t)
            /\ optimizer' = [params |-> nn_module', sched |-> FALSE,
                              lr |-> LrInitial(n_epochs)]
            /\ heap' = Restrict(InitializedHeap(heap, "reinit", t),
                                {nn_module', lpf', best_model, best_lpf})
            /\ log' = log \cup {Msg("Loss value is too large, reinitializing", NoSub)}
       ELSE /\ heap' = OptimizerStep(heap, loss, t)
            /\ UNCHANGED <<nn_module, lpf, optimizer, log>>
    /\ batch' = NextBatch(batch, Diverged(loss))
    /\ UNCHANGED <<network_type, fpc, n_epochs, stop_threshold, epoch,
                   best_train_loss, best_train_epoch, best_model, best_lpf>>
    /\ UNCHANGED <<mainvars, extvars>>

\* Line 164 without the tolerance: best_train_loss > train_loss.
Improved_NoTolerance(best, train_loss) == FGt(best, train_loss)

\* Line 164: best_train_loss - train_loss > 1e-6.
Improved(best, train_loss) == FGt(FSub(best, train_loss), Micro(Tol))

\* Line 176 with > for >=.
Stalled_Strict(e, best_epoch) == e - best_epoch > stop_threshold

\* Line 176: epoch - best_train_epoch >= stop_threshold.
Stalled(e, best_epoch) == e - best_epoch >= stop_threshold

\* Line 181: train_loss == torch.nan or train_loss == torch.inf.
NanOrInf(train_loss) == FEq(train_loss, NaN) \/ FEq(train_loss, Inf)

\* copy.deepcopy(x): a new object with x's weights; deepcopy(None) is None.
DeepCopyId(x, e) ==
    IF x = NoneObj THEN NoneObj
    ELSE [role |-> x.role, mk |-> "copy", at |-> e]

\* The potential kept as best is not replaced with the network.
BestLpf_Stale(better, e) == best_lpf

\* Lines 164 and 168: the potential kept as best after the test of line 164.
BestLpf(better, e) == IF better THEN DeepCopyId(lpf, e) ELSE best_lpf

\* Lines 160-183: the end of an epoch.
fit_epoch_end ==
    /\ fpc = "loop"
    /\ batch = NumBatches
    /\ LET train_loss == FMean(train_losses)
           better == Improved(best_train_loss, train_loss)
           bm == IF better THEN DeepCopyId(nn_module, epoch) ELSE best_model
           bl == BestLpf(better, epoch)
           be == IF better THEN epoch ELSE best_train_epoch
           h1 == IF better
                 THEN [o \in (DOMAIN heap \cup ({bm, bl} \ {NoneObj})) |->
                          IF o = bm THEN heap[nn_module]
                          ELSE IF o = bl THEN heap[lpf]
                          ELSE heap[o]]
                 ELSE heap
           stop == Stalled(epoch, be)
           again == ~stop /\ NanOrInf(train_loss)
       IN  /\ best_train_loss' = IF better THEN train_loss ELSE best_train_loss
           /\ best_train_epoch' = be
           /\ best_model' = bm
           /\ best_lpf' = bl
           /\ nn_module' = IF again THEN InitNetId("reinit_end", epoch) ELSE nn_module
           /\ lpf' = IF again THEN InitLpfId("reinit_end", epoch) ELSE lpf
           /\ heap' = Restrict(IF again THEN InitializedHeap(h1, "reinit_end", epoch)
                                        ELSE h1,
                               {nn_module', lpf', bm, bl, optimizer.params})
           /\ log' = log
                \cup (IF stop
                      THEN {Msg("No progress for a while, quitting the training loop", NoSub)}
                      ELSE {})
                \cup (IF again
                      THEN {Msg("Nan/Inf loss function acquired, reinitializing...", NoSub)}
                      ELSE {})
           /\ IF ~stop /\ epoch + 1 < n_epochs
              THEN /\ epoch' = epoch + 1
                   /\ batch' = 0
                   /\ train_losses' = <<>>
                   /\ fpc' = "loop"
              ELSE /\ fpc' = "after"
                   /\ UNCHANGED <<epoch, batch, train_losses>>
    /\ optimizer' = SchedulerStep(optimizer, epoch + 1, n_epochs)
    /\ UNCHANGED <<network_type, n_epochs, stop_threshold>>
    /\ UNCHANGED <<mainvars, extvars>>

\* Lines 186-190: the best model becomes the active one.
fit_return ==
    /\ fpc = "after"
    /\ nn_module' = best_model
    /\ lpf' = best_lpf
    /\ fpc' = "done"
    /\ heap' = Restrict(heap, {best_model, best_lpf})
    /\ log' = log \cup {Msg("Training concluded", NoSub)}
    /\ UNCHANGED <<network_type, n_epochs, stop_threshold, epoch, batch,
                   train_losses, optimizer, best_train_loss, best_train_epoch,
                   best_model, best_lpf>>
    /\ UNCHANGED <<mainvars, extvars>>

FitNext ==
    \/ \E ne \in 1..MaxEpochs, st \in 1..MaxEpochs : fit_begin(ne, st)
    \/ \E loss \in LossValues : fit_minibatch(loss)
    \/ fit_epoch_end
    \/ fit_return

FitSpec == FitInit /\ [][FitNext]_vars

\* The steps of a fit that is running.
FitStep ==
    \/ \E loss \in LossValues : fit_minibatch(loss)
    \/ fit_epoch_end
    \/ fit_return

\* fit is sequential code: once called, its next step is always taken in the
\* end (the forward pass, backward pass and update of a minibatch return).
FitLiveSpec == FitSpec /\ WF_vars(FitStep)


\* ------------------------------------------------- imitate-task.py: main
\* No learner is being fitted in this process, for the orchestrator alone.
FitIdle ==
    /\ network_type = "nn"
    /\ nn_module = NoneObj
    /\ lpf = NoneObj
    /\ heap = <<>>
    /\ fpc = "idle"
    /\ n_epochs = 0
    /\ stop_threshold = 0
    /\ epoch = 0
    /\ batch = 0
    /\ train_losses = <<>>
    /\ optimizer = [params |-> NoneObj, sched |-> FALSE, lr |-> 0]
    /\ best_train_loss = Inf
    /\ best_train_epoch = 0
    /\ best_model = NoneObj
    /\ best_lpf = NoneObj
    /\ log = {}

\* The config files explored and the save directory they meet: training
\* starts from an empty save directory (with or without the kind's
\* subdirectory); a load names the files of an earlier run in subgoal order,
\* all present or one missing.
MainInit ==
    /\ \E lt \in LearnerTypes, names \in BOOLEAN, dir \in BOOLEAN, pb \in BOOLEAN,
          sd \in {None} \cup {Some(x) : x \in Seeds} :
          /\ config = [learner_type |-> lt,
                       model_names |-> IF names THEN Some(PrevNames(lt)) ELSE None,
                       model_dir |-> IF dir THEN Some("res/") ELSE None,
                       playback |-> pb, seed |-> sd]
          /\ IF names
             THEN /\ storage \in {PrevFiles(lt)} \cup
                                 {PrevFiles(lt) \ {PrevFile(lt, m)} : m \in Subgoals}
                  /\ dirs = {lt}
             ELSE /\ storage = {}
                  /\ dirs \in {{}, {lt}}
    /\ mpc = "start"
    /\ rng = FromEntropy(1)
    /\ main_exc = ""
    /\ data = <<>>
    /\ waypoint_position = NoData
    /\ ps = <<>>
    /\ joined = 0
    /\ proc = [i \in Subgoals |-> NoProc]
    /\ policies = <<>>
    /\ abandoned = <<>>
    /\ FitIdle
    /\ ExtIdle

\* Lines 147 and 153-157: a process started with the 'spawn' method is a fresh
\* interpreter that imports the module without running main, so that its
\* generators are not the parent's: they are seeded from entropy.
SpawnedRng(parent, e) == FromEntropy(e)

\* Lines 118-126: np.random.seed, torch.manual_seed (and the cuda one) in the
\* process that runs main.
SetSeed(cfg, r) == IF cfg.seed # None THEN Seeded(CHOOSE x \in cfg.seed : TRUE) ELSE r

\* Line 145 with only the model names tested.
TrainingMode_NamesOnly(cfg) == cfg.model_names = None

\* Line 145: config['model_names'] is None or config['model_dir'] is None.
TrainingMode(cfg) == cfg.model_names = None \/ cfg.model_dir = None

\* Lines 111-145: the config is read, every subgoal's data is loaded in index
\* order (waypoint_position is left holding the last subgoal's), and the mode
\* is chosen.
main_begin ==
    /\ mpc = "start"
    /\ data' = [i \in Subgoals |-> SubgoalData(i)]
    /\ waypoint_position' = SubgoalData(NumSubgoals - 1)
    /\ log' = log \cup {Msg("Data loaded", NoSub)}
    /\ mpc' = IF TrainingMode(config) THEN "spawn" ELSE "load"
    /\ rng' = SetSeed(config, rng)
    /\ UNCHANGED <<config, main_exc, ps, joined, proc, storage, dirs, policies,
                   abandoned>>
    /\ UNCHANGED <<fitvarsNoLog, extvars>>

\* Lines 153-156: the process built for loop index i.
NewProcess(i) ==
    [st |-> "running", data |-> data[i], index |-> i, name |-> NoName,
     model |-> NoModel]

\* Lines 152-158: one iteration of the loop that creates and starts the
\* processes.
main_start_worker ==
    /\ mpc = "spawn"
    /\ LET i == Len(ps)
       IN  /\ proc' = [proc EXCEPT ![i] = NewProcess(i)]
           /\ ps' = Append(ps, i)
           /\ mpc' = IF i + 1 < NumSubgoals THEN "spawn" ELSE "join"
    /\ UNCHANGED <<config, rng, main_exc, data, waypoint_position, joined, storage,
                   dirs, policies, abandoned, log>>
    /\ UNCHANGED <<fitvarsNoLog, extvars>>

FilesOfSubgoal(i) == {f \in storage : f.name.subgoal = i}

Alive(p) == proc[p].st \in {"running", "trained", "saved"}

\* p.join() without a timeout: returns only once the process has ended.
JoinReturns_NoTimeout(p, timed_out) == ~Alive(p)

\* Line 162: p.join(timeout=120) returns once the process has ended or the
\* timeout has elapsed.
JoinReturns(p, timed_out) == ~Alive(p) \/ timed_out

\* A join that terminates the process it gave up on.
AfterJoin_Terminate(p) ==
    IF Alive(p) THEN [proc[p] EXCEPT !.st = "killed"] ELSE proc[p]

\* Lines 161-162: join returns None and main does nothing with the process,
\* ended or not.
AfterJoin(p) == proc[p]

\* Lines 161-162: one iteration of the join loop.
main_join(timed_out) ==
    /\ mpc = "join"
    /\ joined < Len(ps)
    /\ LET p == ps[joined + 1]
       IN  /\ JoinReturns(p, timed_out)
           /\ proc' = [proc EXCEPT ![p] = AfterJoin(p)]
           /\ abandoned' = IF Alive(p) THEN (p :> FilesOfSubgoal(p)) @@ abandoned
                                       ELSE abandoned
    /\ joined' = joined + 1
    /\ UNCHANGED <<config, rng, mpc, main_exc, data, waypoint_position, ps, storage,
                   dirs, policies, log>>
    /\ UNCHANGED <<fitvarsNoLog, extvars>>

\* Line 164: return.
main_return ==
    /\ mpc = "join"
    /\ joined = Len(ps)
    /\ mpc' = "returned"
    /\ UNCHANGED <<config, rng, main_exc, data, waypoint_position, ps, joined, proc,
                   storage, dirs, policies, abandoned, log>>
    /\ UNCHANGED <<fitvarsNoLog, extvars>>

\* policies.insert(0, model) in place of line 174.
AddPolicy_Front(ps_, model) == <<model>> \o ps_

\* Line 174: policies.append(model).
AddPolicy(ps_, model) == Append(ps_, model)

\* Lines 170-173: the learner built for a model name, its goal taken from
\* waypoint_position (the last subgoal loaded), and the file's model loaded
\* into it.
LoadedLearner(f) ==
    [network |-> config.learner_type, goal |-> waypoint_position.last_pos,
     module |-> f.model]

FilesNamed(kind, name) == {f \in storage : f.kind = kind /\ f.name = name}

\* Lines 167-174: one iteration of the loading loop.  The constructor raises
\* on an unknown kind, torch.load on a missing file.
main_load_model ==
    /\ mpc = "load"
    /\ LET names == CHOOSE n \in config.model_names : TRUE
           i == Len(policies)
           found == FilesNamed(config.learner_type, names[i + 1])
       IN  IF config.learner_type \notin NetworkTypes
           THEN /\ mpc' = "raised"
                /\ main_exc' = "NotImplementedError"
                /\ log' = log \cup {Msg("Loading model", i)}
                /\ UNCHANGED policies
           ELSE IF found = {}
           THEN /\ mpc' = "raised"
                /\ main_exc' = "FileNotFoundError"
                /\ log' = log \cup {Msg("Loading model", i)}
                /\ UNCHANGED policies
           ELSE /\ policies' = AddPolicy(policies,
                                         LoadedLearner(CHOOSE f \in found : TRUE))
                /\ log' = log \cup {Msg("Loading model", i)}
                /\ mpc' = IF i + 1 < Len(names) THEN "load" ELSE "post"
                /\ UNCHANGED main_exc
    /\ UNCHANGED <<config, rng, data, waypoint_position, ps, joined, proc, storage,
                   dirs, abandoned>>
    /\ UNCHANGED <<fitvarsNoLog, extvars>>

\* Lines 177-196: playback_dataset is called with keywords it does not take
\* (video_path, multiplier, force_dim, force_time_step).
main_finish ==
    /\ mpc = "post"
    /\ IF config.playback
       THEN /\ mpc' = "raised"
            /\ main_exc' = "TypeError"
            /\ log' = log \cup {Msg("Starting playback...", NoSub)}
       ELSE /\ mpc' = "done"
            /\ log' = log \cup {Msg("Process complete.", NoSub)}
            /\ UNCHANGED main_exc
    /\ UNCHANGED <<config, rng, data, waypoint_position, ps, joined, proc, storage,
                   dirs, policies, abandoned>>
    /\ UNCHANGED <<fitvarsNoLog, extvars>>

\* ----------------------------- the worker processes: train_policy_for_subgoal
\* waypoint_policy lines 47-76, in the worker: the name is fixed, the data is
\* shaped and the learner is built and fitted; an unknown kind raises.
worker_train(i, ts, e) ==
    /\ proc[i].st = "running"
    /\ proc' = [proc EXCEPT ![i] =
          IF config.learner_type \in {"snds", "nn", "sdsef", "lnet"}
          THEN [@ EXCEPT !.st = "trained",
                         !.name = ModelName(config.learner_type, proc[i].index, ts),
                         !.model = FittedModel(config.learner_type, proc[i].data,
                                               SpawnedRng(rng, e))]
          ELSE [@ EXCEPT !.st = "failed",
                         !.name = ModelName(config.learner_type, proc[i].index, ts)]]
    /\ UNCHANGED <<config, rng, mpc, main_exc, data, waypoint_position, ps, joined,
                   storage, dirs, policies, abandoned, log>>
    /\ UNCHANGED <<fitvarsNoLog, extvars>>

\* NL_DS.save lines 253-258 and waypoint_policy lines 84-87: only the kinds
\* other than sdsef create the kind's directory.
worker_save(i) ==
    /\ proc[i].st = "trained"
    /\ LET kind == config.learner_type
       IN  IF kind = "sdsef" /\ kind \notin dirs
           THEN /\ proc' = [proc EXCEPT ![i].st = "failed"]
                /\ UNCHANGED <<storage, dirs, log>>
           ELSE /\ dirs' = dirs \cup {kind}
                /\ storage' = WriteFile(storage,
                                  ModelFile(kind, proc[i].name, proc[i].model))
                /\ log' = log \cup {Msg("Model saved", proc[i].index)}
                /\ proc' = [proc EXCEPT ![i].st = "saved"]
    /\ UNCHANGED <<config, rng, mpc, main_exc, data, waypoint_position, ps, joined,
                   policies, abandoned>>
    /\ UNCHANGED <<fitvarsNoLog, extvars>>

\* train_policy_for_subgoal line 108, then the process ends.
worker_exit(i) ==
    /\ proc[i].st = "saved"
    /\ proc' = [proc EXCEPT ![i].st = "exited"]
    /\ log' = log \cup {Msg("training complete.", proc[i].index)}
    /\ UNCHANGED <<config, rng, mpc, main_exc, data, waypoint_position, ps, joined,
                   storage, dirs, policies, abandoned>>
    /\ UNCHANGED <<fitvarsNoLog, extvars>>

MainStep ==
    \/ main_begin
    \/ main_start_worker
    \/ \E timed_out \in BOOLEAN : main_join(timed_out)
    \/ main_return
    \/ main_load_model
    \/ main_finish

MainNext ==
    \/ main_begin
    \/ main_start_worker
    \/ \E timed_out \in BOOLEAN : main_join(timed_out)
    \/ main_return
    \/ main_load_model
    \/ main_finish
    \/ \E i \in Subgoals, w \in WorkerEnvs : worker_train(i, w.ts, w.e)
    \/ \E i \in Subgoals : worker_save(i)
    \/ \E i \in Subgoals : worker_exit(i)

MainSpec == MainInit /\ [][MainNext]_vars

\* main's own steps are always taken in the end (a started process, a join
\* with a timeout and a return all come back); nothing is assumed of the
\* workers, which may never finish.
MainLiveSpec == MainSpec /\ WF_vars(MainStep)

\* ------------------------------------------- imitate-task.py: waypoint_policy
\* The magnitudes normalize_magnitude is given.
Magnitudes == {2}

\* The calls explored: every learner kind, every combination of the optional
\* stages, every waypoint set of up to MaxWaypoints samples.
WpInit ==
    /\ wpc = "start"
    /\ \E lt \in LearnerTypes, sg \in Subgoals, nm \in {None} \cup {Some(m) : m \in Magnitudes},
          cl \in BOOLEAN, au \in BOOLEAN, pl \in BOOLEAN :
          wp_args = [learner_type |-> lt, subgoal |-> sg, normalize |-> nm,
                     clean |-> cl, augment |-> au, plot |-> pl]
    /\ waypoints \in WaypointSets
    /\ wp_name = NoName
    /\ wp_goal = NoSub
    /\ wp_model = NoWpModel
    /\ wp_files = {}
    /\ wp_exc = ""
    /\ wp_trace = <<>>
    /\ FitIdle
    /\ MainIdle
    /\ SlIdle
    /\ PbIdle

wpframe == <<fitvars, mainvars, slvars, pbvars>>

\* A statement that swallows the error of the step and goes on.
AfterStep_Swallow(next, ok, exc) == [pc |-> next, exc |-> ""]

\* No step of waypoint_policy is inside a try: a step that raises ends the
\* call with its exception, a step that completes is followed by the next.
AfterStep(next, ok, exc) ==
    IF ok THEN [pc |-> next, exc |-> ""] ELSE [pc |-> "raised", exc |-> exc]

\* waypoint_velocities[-1] = v.
SetLastVelocity(s, v) == [s EXCEPT ![Len(s)].vel = v]

\* Line 51 left out.
Anchor_Skip(s) == s

\* Line 51: waypoint_velocities[-1] = np.zeros(...).
Anchor(s) == SetLastVelocity(s, 0)

\* normalize_waypoints: every velocity is rescaled by the same positive
\* factor, its direction kept.
Normalize(s, m) == [i \in 1..Len(s) |-> Sample(s[i].pos, s[i].vel * m)]

\* clean_waypoints: samples with a zero velocity and samples at the position
\* of the sample kept before them are removed.
RECURSIVE CleanFrom(_, _)
CleanFrom(s, kept) ==
    IF s = <<>> THEN kept
    ELSE LET x == Head(s)
             degenerate == \/ x.vel = 0
                           \/ kept # <<>> /\ kept[Len(kept)].pos = x.pos
         IN  CleanFrom(Tail(s), IF degenerate THEN kept ELSE Append(kept, x))

Clean(s) == CleanFrom(s, <<>>)

\* augment_data with rate 1: one perturbed copy of every sample is added
\* after the originals, with the original's velocity.
Augment(s, noise) ==
    s \o [i \in 1..Len(s) |-> Sample(s[i].pos + noise, s[i].vel)]

\* Lines 47-52: the name, the goal (the last position of the set as passed
\* in) and the zero velocity of the last sample.
wp_anchor(ts) ==
    /\ wpc = "start"
    /\ wp_name' = ModelName(wp_args.learner_type, wp_args.subgoal, ts)
    /\ wp_goal' = waypoints[Len(waypoints)].pos
    /\ waypoints' = Anchor(waypoints)
    /\ wp_trace' = Append(wp_trace, "anchor")
    /\ wpc' = "normalize"
    /\ UNCHANGED <<wp_args, wp_model, wp_files, wp_exc>>
    /\ UNCHANGED wpframe

\* Lines 54-58.
wp_normalize ==
    /\ wpc = "normalize"
    /\ IF wp_args.normalize # None
       THEN /\ waypoints' = Normalize(waypoints, CHOOSE m \in wp_args.normalize : TRUE)
            /\ wp_trace' = Append(wp_trace, "normalize")
       ELSE UNCHANGED <<waypoints, wp_trace>>
    /\ wpc' = "clean"
    /\ UNCHANGED <<wp_args, wp_name, wp_goal, wp_model, wp_files, wp_exc>>
    /\ UNCHANGED wpframe

\* Lines 61-63: cleaning fails when it would leave no sample.
wp_clean ==
    /\ wpc = "clean"
    /\ IF wp_args.clean
       THEN LET c == Clean(waypoints)
                a == AfterStep("augment", c # <<>>, "InsufficientDataError")
            IN  /\ wpc' = a.pc
                /\ wp_exc' = a.exc
                /\ IF c # <<>>
                   THEN /\ waypoints' = c
                        /\ wp_trace' = Append(wp_trace, "clean")
                   ELSE UNCHANGED <<waypoints, wp_trace>>
       ELSE /\ wpc' = "augment"
            /\ UNCHANGED <<waypoints, wp_trace, wp_exc>>
    /\ UNCHANGED <<wp_args, wp_name, wp_goal, wp_model, wp_files>>
    /\ UNCHANGED wpframe

\* Lines 66-69.
wp_augment(ok, noise) ==
    /\ wpc = "augment"
    /\ IF wp_args.augment
       THEN LET a == AfterStep("construct", ok, "ValueError")
            IN  /\ wpc' = a.pc
                /\ wp_exc' = a.exc
                /\ IF ok
                   THEN /\ waypoints' = Augment(waypoints, noise)
                        /\ wp_trace' = Append(wp_trace, "augment")
                   ELSE UNCHANGED <<waypoints, wp_trace>>
       ELSE /\ ok /\ noise = 1
            /\ wpc' = "construct"
            /\ UNCHANGED <<waypoints, wp_trace, wp_exc>>
    /\ UNCHANGED <<wp_args, wp_name, wp_goal, wp_model, wp_files>>
    /\ UNCHANGED wpframe

\* Lines 71-73 and 75-76: the learner is built for a known kind, with the goal
\* of line 48.
wp_construct ==
    /\ wpc = "construct"
    /\ LET known == wp_args.learner_type \in {"snds", "nn", "sdsef", "lnet"}
           a == AfterStep("fit", known, "NotImplementedError")
       IN  /\ wpc' = a.pc
           /\ wp_exc' = a.exc
           /\ IF known
              THEN /\ wp_model' = WpModel(wp_args.learner_type, wp_goal, <<>>)
                   /\ wp_trace' = Append(wp_trace, "construct")
              ELSE UNCHANGED <<wp_model, wp_trace>>
    /\ UNCHANGED <<wp_args, waypoints, wp_name, wp_goal, wp_files>>
    /\ UNCHANGED wpframe

\* Line 74: model.fit(waypoint_positions, waypoint_velocities, ...).
wp_fit(ok) ==
    /\ wpc = "fit"
    /\ LET a == AfterStep("plot", ok, "RuntimeError")
       IN  /\ wpc' = a.pc
           /\ wp_exc' = a.exc
           /\ IF ok
              THEN /\ wp_model' = [wp_model EXCEPT !.fit_set = waypoints]
                   /\ wp_trace' = Append(wp_trace, "fit")
              ELSE UNCHANGED <<wp_model, wp_trace>>
    /\ UNCHANGED <<wp_args, waypoints, wp_name, wp_goal, wp_files>>
    /\ UNCHANGED wpframe

\* Lines 78-82.
wp_plot(ok) ==
    /\ wpc = "plot"
    /\ IF wp_args.plot
       THEN LET a == AfterStep("save", ok, "OSError")
            IN  /\ wpc' = a.pc
                /\ wp_exc' = a.exc
                /\ wp_trace' = IF ok THEN Append(wp_trace, "plot")
                                                ELSE wp_trace
       ELSE /\ ok
            /\ wpc' = "save"
            /\ UNCHANGED <<wp_trace, wp_exc>>
    /\ UNCHANGED <<wp_args, waypoints, wp_name, wp_goal, wp_model, wp_files>>
    /\ UNCHANGED wpframe

\* Line 84: model.save(model_name=name, dir=save_dir).
wp_save(ok) ==
    /\ wpc = "save"
    /\ LET a == AfterStep("return", ok, "OSError")
       IN  /\ wpc' = a.pc
           /\ wp_exc' = a.exc
           /\ IF ok
              THEN /\ wp_files' = WriteFile(wp_files,
                                    ModelFile(wp_model.network, wp_name, wp_model))
                   /\ wp_trace' = Append(wp_trace, "save")
              ELSE UNCHANGED <<wp_files, wp_trace>>
    /\ UNCHANGED <<wp_args, waypoints, wp_name, wp_goal, wp_model>>
    /\ UNCHANGED wpframe

\* Lines 86-87.
wp_return ==
    /\ wpc = "return"
    /\ wpc' = "returned"
    /\ UNCHANGED <<wp_args, waypoints, wp_name, wp_goal, wp_model, wp_files,
                   wp_exc, wp_trace>>
    /\ UNCHANGED wpframe

WpNext ==
    \/ \E ts \in Stamps : wp_anchor(ts)
    \/ wp_normalize
    \/ wp_clean
    \/ \E ok \in BOOLEAN, noise \in {0 - 1, 1} : wp_augment(ok, noise)
    \/ wp_construct
    \/ \E ok \in BOOLEAN : wp_fit(ok)
    \/ \E ok \in BOOLEAN : wp_plot(ok)
    \/ \E ok \in BOOLEAN : wp_save(ok)
    \/ wp_return

WpSpec == WpInit /\ [][WpNext]_vars

\* ------------------------------------------------ NL_DS.save and NL_DS.load
Goals == {0, 1}
SaveNames == {"m1"}
LoadNames == {"m1", "m2"}

\* Lines 52-77: NL_DS(network=kind, goal=goal).  Only the sdsef and snds
\* networks are built with the goal, and only snds has a potential.
NewLearner(l, kind, goal) ==
    [network |-> kind,
     goal |-> goal,
     module |-> Module(kind, IF kind \in {"sdsef", "snds"} THEN goal ELSE NoSub,
                       InitWeights(l), TRUE),
     lpf |-> IF kind = "snds" THEN Module("lpf", goal, InitWeights(l), TRUE)
                              ELSE NoModule,
     loaded_from |-> {}]

\* Two learners of any kinds and goals, an empty save directory with or
\* without its kind directories.
SlInit ==
    /\ \E ka \in NetworkTypes, kb \in NetworkTypes, ga \in Goals, gb \in Goals :
          sl_learners = [l \in LearnerIds |->
                            IF l = "a" THEN NewLearner(l, ka, ga)
                                       ELSE NewLearner(l, kb, gb)]
    /\ sl_disk = {}
    /\ sl_dirs \in {{}, NetworkTypes}
    /\ sl_out = NoCall
    /\ FitIdle
    /\ MainIdle
    /\ WpIdle
    /\ PbIdle

slframe == <<fitvars, mainvars, wpvars, pbvars>>

\* Lines 82-190 as seen from outside: the active network and the potential
\* end as the fitted ones (the network is left in training mode, line 124).
sl_fit(l) ==
    /\ sl_learners' = [sl_learners EXCEPT ![l] =
          [@ EXCEPT !.module = [@ EXCEPT !.weights = FitWeights(l),
                                          !.training = TRUE],
                    !.lpf = IF @ = NoModule THEN NoModule
                            ELSE [@ EXCEPT !.weights = FitWeights(l)],
                    !.loaded_from = {}]]
    /\ sl_out' = Call("fit", l, "", "")
    /\ UNCHANGED <<sl_disk, sl_dirs>>
    /\ UNCHANGED slframe

\* module.state_dict(): the weights of the module, not the goal it was built
\* with.
StateDict(m) == m.weights

\* module.load_state_dict(sd).
LoadStateDict(m, sd) == [m EXCEPT !.weights = sd]

\* Lines 253-258: what torch.save is given.
SavePayload(lr) ==
    IF lr.network = "sdsef"
    THEN [form |-> "state_dict", state_dict |-> StateDict(lr.module), module |-> NoModule]
    ELSE [form |-> "module", state_dict |-> NoModule.weights, module |-> lr.module]

\* Lines 192-207: predict evaluates self.__nn_module; its output is fixed by
\* the network's kind, the goal it was built with and its weights.
Predict(lr) == [kind |-> lr.module.kind, goal |-> lr.module.goal,
                weights |-> lr.module.weights]

\* Lines 209-228: lpf evaluates self.__lpf, or returns None without one.
Potential(lr) ==
    IF lr.lpf = NoModule THEN None
    ELSE Some([goal |-> lr.lpf.goal, weights |-> lr.lpf.weights])

\* The file of a save, with what predict and lpf of the saved learner
\* returned when it was saved.
SavedFile(lr, n) ==
    [kind |-> lr.network, name |-> n, payload |-> SavePayload(lr),
     saved_predict |-> Predict(lr), saved_potential |-> Potential(lr)]

\* What a learner remembers of the file its network was loaded from.
Origin(f) == [predict |-> f.saved_predict, potential |-> f.saved_potential]

\* Lines 245-258: save(model_name, dir).  Only the branch of the other kinds
\* creates the directory.
sl_save(l, n) ==
    LET lr == sl_learners[l] IN
    /\ IF lr.network = "sdsef" /\ "sdsef" \notin sl_dirs
       THEN /\ sl_out' = Call("save", l, n, "RuntimeError")
            /\ UNCHANGED <<sl_disk, sl_dirs>>
       ELSE /\ sl_dirs' = sl_dirs \cup {lr.network}
            /\ sl_disk' = WriteFile(sl_disk, SavedFile(lr, n))
            /\ sl_out' = Call("save", l, n, "")
    /\ UNCHANGED sl_learners
    /\ UNCHANGED slframe

\* A load that drops the active network before it reads the file.
LoadMissing_Reset(lr) == [lr EXCEPT !.module = NoModule]

\* Lines 238 and 241 with no file at the path: torch.load raises before
\* anything is assigned.
LoadMissing(lr) == lr

\* Lines 237-242 with the file f at the path: the state dict is loaded into
\* the learner's own network, which is put in eval mode (sdsef), or the
\* unpickled module replaces the network (the other kinds); self.__lpf and
\* self.__goal are not touched.
Loaded(lr, f) ==
    IF lr.network = "sdsef"
    THEN [lr EXCEPT !.module = [LoadStateDict(@, f.payload.state_dict)
                                    EXCEPT !.training = FALSE],
                    !.loaded_from = {Origin(f)}]
    ELSE [lr EXCEPT !.module = f.payload.module,
                    !.loaded_from = {Origin(f)}]

SlFilesNamed(kind, n) == {f \in sl_disk : f.kind = kind /\ f.name = n}

\* Lines 230-242: load(model_name, dir).
sl_load(l, n) ==
    LET lr == sl_learners[l]
        found == SlFilesNamed(lr.network, n)
    IN  /\ IF found = {}
           THEN /\ sl_learners' = [sl_learners EXCEPT ![l] = LoadMissing(lr)]
                /\ sl_out' = Call("load", l, n, "FileNotFoundError")
           ELSE /\ sl_learners' = [sl_learners EXCEPT ![l] =
                                      Loaded(lr, CHOOSE f \in found : TRUE)]
                /\ sl_out' = Call("load", l, n, "")
        /\ UNCHANGED <<sl_disk, sl_dirs>>
        /\ UNCHANGED slframe

SlNext ==
    \/ \E l \in LearnerIds : sl_fit(l)
    \/ \E l \in LearnerIds, n \in SaveNames : sl_save(l, n)
    \/ \E l \in LearnerIds, n \in LoadNames : sl_load(l, n)

SlSpec == SlInit /\ [][SlNext]_vars

\* -------------------------------- sim/playback_robomimic.py: playback_dataset
\* The cap of the approach loop's test on action_num: 5000 in the source,
\* scaled down here.
ActionCap == 3

\* The most iterations of one gripper loop that are explored.
MaxGripperSteps == 2

\* A call with one descriptor and one policy per subgoal, in index order; the
\* dataset is of a robosuite environment or not, the descriptors have the key
\* subgoal_euler or lack it, and angular policies are given or not.
PbInit ==
    /\ pbc = "start"
    /\ pb_args \in [robosuite : BOOLEAN, has_euler : BOOLEAN, angular : BOOLEAN]
    /\ pb_i = 0
    /\ action_num = 0
    /\ pb_near = FALSE
    /\ pb_action = FALSE
    /\ pb_grip = 0
    /\ pb_queries = {}
    /\ pb_exit = <<>>
    /\ pb_exc = ""
    /\ FitIdle
    /\ MainIdle
    /\ WpIdle
    /\ SlIdle

pbframe == <<fitvars, mainvars, wpvars, slvars>>

\* Lines 45-84: the environment is created and reset; obs holds the first
\* observation. Any other environment than a robosuite one is refused.
pb_begin(near) ==
    /\ pbc = "start"
    /\ IF pb_args.robosuite
       THEN /\ action_num' = 0
            /\ pb_i' = 0
            /\ pb_near' = near
            /\ pbc' = IF NumSubgoals > 0 THEN "subgoal" ELSE "done"
            /\ UNCHANGED pb_exc
       ELSE /\ pbc' = "raised"
            /\ pb_exc' = "ValueError"
            /\ near = pb_near
            /\ UNCHANGED <<action_num, pb_i, pb_near>>
    /\ UNCHANGED <<pb_args, pb_action, pb_grip, pb_queries, pb_exit>>
    /\ UNCHANGED pbframe

\* Lines 86-88: the descriptor of subgoal i is read.
pb_subgoal ==
    /\ pbc = "subgoal"
    /\ IF pb_args.has_euler
       THEN /\ pbc' = "approach"
            /\ UNCHANGED pb_exc
       ELSE /\ pbc' = "raised"
            /\ pb_exc' = "KeyError"
    /\ UNCHANGED <<pb_args, pb_i, action_num, pb_near, pb_action, pb_grip,
                   pb_queries, pb_exit>>
    /\ UNCHANGED pbframe

\* policies[0] for every subgoal.
PolicyFor_First(i) == 0

\* Lines 103 and 112: the policy queried while subgoal i is pursued.
PolicyFor(i) == i

\* Line 90: the test of the approach loop.
ApproachContinues(near, n) == ~near /\ n < ActionCap

\* Lines 90-139: one iteration of the approach loop.
pb_approach_step(near) ==
    /\ pbc = "approach"
    /\ ApproachContinues(pb_near, action_num)
    /\ pb_queries' = pb_queries
          \cup {<<"linear", PolicyFor(pb_i), pb_i>>}
          \cup (IF pb_args.angular THEN {<<"angular", PolicyFor(pb_i), pb_i>>} ELSE {})
    /\ pb_action' = TRUE
    /\ pb_near' = near
    /\ action_num' = action_num + 1
    /\ UNCHANGED <<pbc, pb_args, pb_i, pb_grip, pb_exit, pb_exc>>
    /\ UNCHANGED pbframe

\* Lines 90 and 144-147: the approach loop ends and the gripper action is
\* built from the last action, which is unbound when no approach step was
\* ever taken.
pb_approach_exit ==
    /\ pbc = "approach"
    /\ ~ApproachContinues(pb_near, action_num)
    /\ pb_exit' = (pb_i :> [near |-> pb_near, action_num |-> action_num]) @@ pb_exit
    /\ IF pb_action
       THEN /\ pbc' = "gripper"
            /\ pb_grip' = 0
            /\ UNCHANGED pb_exc
       ELSE /\ pbc' = "raised"
            /\ pb_exc' = "UnboundLocalError"
            /\ UNCHANGED pb_grip
    /\ UNCHANGED <<pb_args, pb_i, action_num, pb_near, pb_action, pb_queries>>
    /\ UNCHANGED pbframe

\* Lines 149-168: one iteration of the gripper loop, which steps the
\* environment and so replaces obs; when the gripper has stopped moving the
\* loop ends and the next subgoal, if any, is taken up (pb_near is then the
\* distance test against that subgoal's position).
pb_gripper_step(settled, near) ==
    /\ pbc = "gripper"
    /\ pb_grip + 1 < MaxGripperSteps \/ settled
    /\ action_num' = action_num + 1
    /\ pb_near' = near
    /\ IF settled
       THEN /\ pb_grip' = 0
            /\ IF pb_i + 1 < NumSubgoals
               THEN /\ pb_i' = pb_i + 1
                    /\ pbc' = "subgoal"
               ELSE /\ pbc' = "done"
                    /\ UNCHANGED pb_i
       ELSE /\ pb_grip' = pb_grip + 1
            /\ UNCHANGED <<pbc, pb_i>>
    /\ UNCHANGED <<pb_args, pb_action, pb_queries, pb_exit, pb_exc>>
    /\ UNCHANGED pbframe

PbNext ==
    \/ \E near \in BOOLEAN : pb_begin(near)
    \/ pb_subgoal
    \/ \E near \in BOOLEAN : pb_approach_step(near)
    \/ pb_approach_exit
    \/ \E settled \in BOOLEAN, near \in BOOLEAN : pb_gripper_step(settled, near)

PbSpec == PbInit /\ [][PbNext]_vars

\* ------------------------------------------------------------------ claims
\* What the claims say about a step of fit or a loss, stated without the
\* model's own tests.
AtEpochEnd == fpc = "loop" /\ batch = NumBatches
AtMinibatch == fpc = "loop" /\ batch < NumBatches
NoProgressMsg == Msg("No progress for a while, quitting the training loop", NoSub)

\* m is lower than best by more than 1e-6.
LowerByMoreThanTol(best, m) ==
    /\ m.k = "fin"
    /\ \/ best.k = "inf"
       \/ best.k = "fin" /\ best.v - m.v > Tol * NumBatches

\* C1: when fit returns, the active network (and the potential, for snds) is
\* the copy taken at the end of the recorded best epoch, not the object that
\* was being trained.
C1_ActiveIsBestSnapshot ==
    fpc = "done" =>
        /\ nn_module = NetObj("copy", best_train_epoch)
        /\ HasLpf => lpf = LpfObj("copy", best_train_epoch)

\* C2: the best snapshot, the best epoch and the best loss are replaced at the
\* end of an epoch iff the epoch's mean loss is lower than the best loss by
\* more than 1e-6; the best loss never increases and the best epoch never
\* decreases during fit.
C2_BestReplacedIffImproves ==
    [][fpc = "loop" =>
        LET m == FMean(train_losses)
            lower == AtEpochEnd /\ LowerByMoreThanTol(best_train_loss, m)
        IN  /\ lower =>
                /\ best_model' = NetObj("copy", epoch)
                /\ best_model' # best_model
                /\ heap'[best_model'] = heap[nn_module]
                /\ best_train_epoch' = epoch
                /\ best_train_loss' = m
            /\ ~lower =>
                /\ best_model' = best_model
                /\ best_lpf' = best_lpf
                /\ best_train_epoch' = best_train_epoch
                /\ best_train_loss' = best_train_loss
            /\ ~FGt(best_train_loss', best_train_loss)
            /\ best_train_epoch' >= best_train_epoch]_vars

\* C2 witness: the snapshot was replaced at the end of a later epoch than the
\* first, whose loss beat an earlier finite best loss.
C2_Witness ==
    /\ fpc = "loop"
    /\ best_train_epoch = 1
    /\ best_model = NetObj("copy", 1)
    /\ best_train_loss.k = "fin"

\* C3: a minibatch whose loss exceeds loss_clip or is NaN or infinite makes
\* fit re-initialize the network and the optimizer and skip the update; every
\* other minibatch leaves the network in place and updates it.
C3_ReinitIffDiverged ==
    [][AtMinibatch =>
        LET loss == train_losses'[Len(train_losses')]
            t == epoch * NumBatches + batch
            bad == \/ loss.k \in {"nan", "inf"}
                   \/ loss.k = "fin" /\ loss.v > ClipUnits * NumBatches
        IN  IF bad
            THEN /\ nn_module' # nn_module
                 /\ heap'[nn_module'] = Weights("reinit", t, FALSE)
                 /\ optimizer'.params = nn_module'
                 /\ \A o \in DOMAIN heap \cap DOMAIN heap' : heap'[o] = heap[o]
            ELSE /\ nn_module' = nn_module
                 /\ heap'[nn_module].mk = "step"
                 /\ heap'[nn_module].at = t]_vars

\* C4: fit leaves the epoch loop early exactly at the end of an epoch at
\* which epoch - best_train_epoch >= stop_threshold, and at no other point.
C4_StopsIffStalled ==
    [][/\ AtMinibatch => fpc' = "loop"
       /\ AtEpochEnd =>
            IF epoch - best_train_epoch' >= stop_threshold
            THEN /\ fpc' = "after"
                 /\ epoch' = epoch
                 /\ NoProgressMsg \in log'
            ELSE /\ NoProgressMsg \notin log'
                 /\ \/ fpc' = "loop" /\ epoch' = epoch + 1
                    \/ fpc' = "after" /\ epoch + 1 = n_epochs]_vars

\* C4 witness: fit left the loop on a stall with epochs of the budget left.
C4_Witness ==
    /\ fpc = "after"
    /\ epoch + 1 < n_epochs
    /\ epoch - best_train_epoch >= stop_threshold
    /\ NoProgressMsg \in log

TrainingPcs == {"spawn", "join", "returned"}
LoadingPcs == {"load", "post", "done", "raised"}
ModelNames == CHOOSE n \in config.model_names : TRUE

\* The files written by the workers of this run.
RunFiles == {f \in storage : f.name.time_stamp \in Stamps}

C6_ModeByNamesOnly ==
    /\ mpc \in TrainingPcs => config.model_names = None /\ policies = <<>>
    /\ mpc \in LoadingPcs => config.model_names # None /\ ps = <<>>

\* C6 as amended: main trains exactly when model_names or model_dir is None
\* and loads exactly when both are supplied; training loads nothing and
\* loading starts no worker.
C6_ModeByNamesAndDir ==
    mpc # "start" =>
        /\ mpc \in TrainingPcs \cup LoadingPcs
        /\ mpc \in TrainingPcs =>
              /\ config.model_names = None \/ config.model_dir = None
              /\ policies = <<>>
        /\ mpc \in LoadingPcs =>
              /\ config.model_names # None /\ config.model_dir # None
              /\ ps = <<>>
              /\ \A i \in Subgoals : proc[i] = NoProc

\* C6 witness: workers are running although model names were supplied.
C6_Witness ==
    /\ mpc = "join"
    /\ config.model_names # None
    /\ config.model_dir = None
    /\ \E i \in Subgoals : proc[i].st = "trained"

\* C7: in training mode main starts every worker before it waits for any,
\* never ends or alters a worker it has started, and always returns, also
\* when workers never finish.
C7_NeverBlocksOnWorker ==
    /\ [](joined > 0 =>
            /\ Len(ps) = NumSubgoals
            /\ \A i \in Subgoals : proc[i].st # "none")
    /\ [][(mpc' # mpc \/ joined' # joined) =>
            \A i \in Subgoals : proc[i].st # "none" => proc'[i] = proc[i]]_vars
    /\ (mpc = "spawn") ~> (mpc = "returned")

\* C7 witness: main has returned while a worker it started is still in its
\* training.
C7_Witness ==
    /\ mpc = "returned"
    /\ \E i \in Subgoals : proc[i].st = "running"

\* C8: when a worker's join times out, main reports it for that subgoal and
\* leaves the sibling workers alone.
C8_TimeoutReported ==
    \A i \in DOMAIN abandoned :
        /\ \E m \in log : m.sub = i /\ m.msg \notin {"Model saved", "training complete."}
        /\ \A k \in Subgoals \ {i} : proc[k].st # "killed"

\* C9: once main has given up waiting for worker i, no model file of subgoal
\* i that was not on disk at that moment is ever written.
C9_NoLateFile ==
    \A i \in DOMAIN abandoned : FilesOfSubgoal(i) \subseteq abandoned[i]

\* C9 as amended: a worker whose join timed out is never ended by main and
\* keeps running; the only file of subgoal i that appears after that moment
\* is worker i's own model file, written by its save.
C9_AbandonedKeepsRunning ==
    \A i \in DOMAIN abandoned :
        /\ proc[i].st \in {"running", "trained", "saved", "exited", "failed"}
        /\ \A f \in FilesOfSubgoal(i) \ abandoned[i] :
              /\ proc[i].st \in {"saved", "exited"}
              /\ f.name = proc[i].name
              /\ f.model = proc[i].model

\* C9 witness: a model file of subgoal i was written after main gave up
\* waiting for worker i.
C9_Witness ==
    \E i \in DOMAIN abandoned : FilesOfSubgoal(i) \ abandoned[i] # {}

\* C10: one worker is started per subgoal index, worker i is given subgoal
\* i's waypoints and names its model after index i, so that the workers'
\* paths are pairwise distinct, and once all workers have completed this
\* run's files are exactly one per subgoal index.
C10_OneFilePerSubgoal ==
    /\ \A k \in 1..Len(ps) : ps[k] = k - 1
    /\ mpc \in {"join", "returned"} => Len(ps) = NumSubgoals
    /\ \A i \in Subgoals : proc[i].st # "none" =>
          /\ proc[i].index = i
          /\ proc[i].data = SubgoalData(i)
    /\ \A i \in Subgoals : proc[i].name # NoName =>
          /\ proc[i].name.subgoal = i
          /\ \A k \in Subgoals \ {i} : proc[k].name # proc[i].name
    /\ (\A i \in Subgoals : proc[i].st = "exited") =>
          /\ Cardinality(RunFiles) = NumSubgoals
          /\ \A i \in Subgoals :
                \E f \in RunFiles :
                    /\ f.name.subgoal = i
                    /\ f.model.trained_on = i
                    /\ \A g \in RunFiles : g.name.subgoal = i => g = f

\* C10 witness: every worker has completed and the files are on disk.
C10_Witness ==
    /\ \A i \in Subgoals : proc[i].st = "exited"
    /\ Cardinality(RunFiles) = NumSubgoals

\* The steps a call of waypoint_policy with the given arguments completes
\* before it returns, in order.
ExpectedTrace(a) ==
    <<"anchor">>
    \o (IF a.normalize # None THEN <<"normalize">> ELSE <<>>)
    \o (IF a.clean THEN <<"clean">> ELSE <<>>)
    \o (IF a.augment THEN <<"augment">> ELSE <<>>)
    \o <<"construct", "fit">>
    \o (IF a.plot THEN <<"plot">> ELSE <<>>)
    \o <<"save">>

IsPrefix(s, t) == Len(s) <= Len(t) /\ \A i \in 1..Len(s) : s[i] = t[i]

\* C11: a call of waypoint_policy in which a step raises ends with that
\* exception and leaves no model file; a model file exists only once every
\* step before the save has completed, and it is the file of the call's own
\* name and subgoal index.
C11_FailedSubgoalLeavesNoFile ==
    /\ IsPrefix(wp_trace, ExpectedTrace(wp_args))
    /\ wpc = "raised" <=> wp_exc # ""
    /\ wpc = "raised" => wp_files = {}
    /\ wp_files # {} =>
          /\ wpc \in {"return", "returned"}
          /\ wp_trace = ExpectedTrace(wp_args)
          /\ wp_files = {ModelFile(wp_args.learner_type, wp_name, wp_model)}
          /\ wp_name.subgoal = wp_args.subgoal
    /\ wpc \in {"return", "returned"} => wp_files # {}

\* C11 witness: the fit of a constructed learner raised and nothing was saved.
C11_Witness ==
    /\ wpc = "raised"
    /\ wp_exc = "RuntimeError"
    /\ wp_model # NoWpModel
    /\ wp_files = {}

\* C16: the zero velocity of the last sample is set before any other
\* transform, and the last sample of the set handed to fit has velocity zero,
\* whatever optional stages ran.
C16_FinalVelocityZero ==
    /\ wp_trace # <<>> => wp_trace[1] = "anchor"
    /\ wp_model.fit_set # <<>> =>
          wp_model.fit_set[Len(wp_model.fit_set)].vel = 0

NonFinite(x) == x.k \in {"nan", "inf"}

KnownTags == {"nn", "lnet", "sdsef", "snds"}

C19_SeedFixesAllDraws ==
    config.seed # None =>
        /\ mpc # "start" => rng = Seeded(CHOOSE x \in config.seed : TRUE)
        /\ \A i \in Subgoals :
              proc[i].model # NoModel =>
                  proc[i].model.draws = Seeded(CHOOSE x \in config.seed : TRUE)

\* C20: every learner holds the last position of its own subgoal's waypoint
\* set as its goal: worker i's learner in training mode, the learner built
\* for the i-th model name in load mode.
C20_GoalIsOwnSubgoalLast ==
    /\ \A i \in Subgoals :
          proc[i].model # NoModel => proc[i].model.goal = SubgoalData(i).last_pos
    /\ \A k \in 1..Len(policies) :
          policies[k].goal = SubgoalData(k - 1).last_pos

\* C12: after a learner's network was loaded from the file of a fitted
\* learner, predict returns what predict of the saved learner returned when
\* the file was saved, for every network kind.
C12_RoundTripPredict ==
    \A l \in LearnerIds :
        \A o \in sl_learners[l].loaded_from :
            o.predict.weights.how = "fit" => Predict(sl_learners[l]) = o.predict

\* C13: after a learner of the Lyapunov-certified kind was loaded from the
\* file of a fitted learner, lpf returns the potential of the saved model,
\* not the one the loading learner was constructed with.
C13_RoundTripPotential ==
    \A l \in LearnerIds :
        \A o \in sl_learners[l].loaded_from :
            sl_learners[l].network = "snds" /\ o.predict.weights.how = "fit" =>
                Potential(sl_learners[l]) = o.potential

\* C15: a load of a name that has no file in the learner's kind directory
\* raises FileNotFoundError and leaves the learner as it was; a load of a name
\* that has one raises nothing.
C15_MissingLoadRaisesAndKeeps ==
    [][sl_out'.op = "load" =>
          LET l == sl_out'.learner
              missing == SlFilesNamed(sl_learners[l].network, sl_out'.name) = {}
          IN  /\ missing => /\ sl_out'.exc = "FileNotFoundError"
                            /\ sl_learners' = sl_learners
              /\ ~missing => sl_out'.exc = ""]_vars

\* C15 witness: a learner that holds a loaded network was asked for a name
\* that was never saved.
C15_Witness ==
    /\ sl_out = Call("load", "b", "m2", "FileNotFoundError")
    /\ sl_learners["b"].loaded_from # {}
    /\ sl_disk # {}

\* The subgoals left so far were taken up in index order, each after the one
\* before it.
PursuedInIndexOrder ==
    /\ DOMAIN pb_exit \subseteq 0..pb_i
    /\ \A k \in 0..(pb_i - 1) : k \in DOMAIN pb_exit
    /\ \A j, k \in DOMAIN pb_exit :
          j < k => pb_exit[j].action_num < pb_exit[k].action_num

\* Every predict call made while subgoal i was pursued went to position i of
\* its list of policies.
OnlyOwnModelQueried == \A q \in pb_queries : q[2] = q[3]

\* C18 (as stated): in playback_dataset the subgoals are pursued in index
\* order, only the model at position i is queried while subgoal i is pursued,
\* and playback advances from subgoal i to subgoal i+1 only once the
\* end-effector is within the distance threshold of subgoal i's position.
C18_AdvanceOnlyWithinThreshold ==
    /\ PursuedInIndexOrder
    /\ OnlyOwnModelQueried
    /\ \A k \in DOMAIN pb_exit : k < pb_i => pb_exit[k].near

\* C18 (amended): in playback_dataset the subgoals are pursued in index order,
\* only the model at position i is queried while subgoal i is pursued, and
\* playback advances from subgoal i to subgoal i+1 only once the end-effector
\* is within the distance threshold of subgoal i's position or the call's
\* action counter has reached its cap.
C18_AdvanceWithinThresholdOrAtCap ==
    /\ PursuedInIndexOrder
    /\ OnlyOwnModelQueried
    /\ \A k \in DOMAIN pb_exit :
          k < pb_i => pb_exit[k].near \/ pb_exit[k].action_num >= ActionCap

\* Playback has advanced to subgoal 1 after querying policy 0 for subgoal 0
\* until the action counter reached its cap, the end-effector still outside
\* the threshold.
C18_Witness ==
    /\ pb_i = 1
    /\ pbc = "approach"
    /\ <<"linear", 0, 0>> \in pb_queries
    /\ ~pb_exit[0].near
    /\ pb_exit[0].action_num = ActionCap

\* A fit_minibatch step in which the optimizer updated the active network.
UpdatesActiveNetwork ==
    /\ AtMinibatch
    /\ nn_module' = nn_module
    /\ heap'[nn_module] # heap[nn_module]

\* The rate decayed linearly from lr_initial at epoch 0 towards lr_end_factor *
\* lr_initial at epoch n_epochs, in units of lr_initial / (100 * n_epochs).
DecayedRate(e) == (100 * (n_epochs - e)) + (EndFactorPct * e)

\* C21: in every epoch of fit, epochs after a divergence re-initialization
\* included, every parameter update is made with the linearly decayed
\* learning rate of that epoch.
C21_UpdatesUseDecayedRate ==
    [][UpdatesActiveNetwork => optimizer.lr = DecayedRate(epoch)]_vars

\* A fit_minibatch step that reaches optimizer.step(): the loss did not make
\* fit re-initialize the network.
TakesOptimizerStep == AtMinibatch /\ nn_module' = nn_module

\* C22: at every optimizer step of fit the optimizer's parameters are those of
\* the active network; after every re-initialization, the one at the end of an
\* epoch included, the optimizer is rebound before the next update.
C22_OptimizerBoundToActive ==
    [][TakesOptimizerStep => optimizer.params = nn_module]_vars

\* The minibatch and end-of-epoch steps fit can still take within its budget
\* of n_epochs passes over the NumBatches minibatches.
StepsLeft ==
    IF fpc = "loop" THEN (n_epochs - epoch) * (NumBatches + 1) - batch ELSE 0

ReinitMsgs ==
    {Msg("Loss value is too large, reinitializing", NoSub),
     Msg("Nan/Inf loss function acquired, reinitializing...", NoSub)}

\* C23: fit always terminates: whatever the minibatch losses and however many
\* re-initializations, it stays within n_epochs epochs of one pass over the
\* minibatches each, every step (a re-initializing one included) uses up one
\* minibatch or one epoch of that budget, and the step after the loop is
\* the return.
C23_FitTerminates ==
    /\ [](fpc = "loop" =>
            /\ epoch < n_epochs
            /\ batch <= NumBatches
            /\ Len(train_losses) = batch)
    /\ [][fpc = "loop" => StepsLeft' < StepsLeft /\ StepsLeft' >= 0]_vars
    /\ [][fpc = "after" => fpc' = "done"]_vars

\* A running fit returns, when its own steps are always taken in the end.
FitReturns == (fpc = "loop") ~> (fpc = "done")

\* C23 witness: fit has returned after using its whole budget of more than
\* one epoch, with re-initializations of both kinds on the way.
C23_Witness ==
    /\ fpc = "done"
    /\ n_epochs > 1
    /\ epoch = n_epochs - 1
    /\ ReinitMsgs \subseteq log

\* The network n and the potential l are one pair: made by the same
\* construction, re-initialization or copy, and holding weights of the same
\* last write.
SamePair(n, l) ==
    /\ n.role = "net"
    /\ l.role = "lpf"
    /\ n.mk = l.mk
    /\ n.at = l.at
    /\ heap[n] = heap[l]

\* C24: for the snds variant, at every point of fit and after it returns, the
\* best network and the best potential kept were taken at the same moment
\* from the same network (same epoch, same initialization), and after fit
\* the potential lpf returns is the one of the network predict uses.
C24_BestPotentialMatchesBestNetwork ==
    network_type = "snds" /\ fpc \in {"loop", "after", "done"} =>
        /\ SamePair(best_model, best_lpf)
        /\ best_model.mk = "copy" => best_model.at = best_train_epoch
        /\ fpc = "done" =>
            /\ nn_module = best_model
            /\ lpf = best_lpf
            /\ SamePair(nn_module, lpf)

\* C24 witness: an snds fit has returned the pair copied at the end of epoch
\* 1, after a re-initialization.
C24_Witness ==
    /\ network_type = "snds"
    /\ fpc = "done"
    /\ nn_module = NetObj("copy", 1)
    /\ lpf = LpfObj("copy", 1)
    /\ heap[nn_module].mk \in {"reinit", "reinit_end"}
    /\ ReinitMsgs \cap log # {}

\* The call is one playback_dataset accepts: a robosuite dataset, and
\* descriptors with the keys it reads.
ValidPlaybackCall == pb_args.robosuite /\ pb_args.has_euler

\* C25: in playback_dataset the gripper phase of every subgoal i is run
\* without error, also when the approach of subgoal i takes no step (the
\* end-effector is within the threshold already, or the action counter has
\* reached its cap).
C25_GripperPhaseRunsForEverySubgoal ==
    ValidPlaybackCall =>
        /\ pbc # "raised"
        /\ pb_exc = ""
        /\ pb_i \in DOMAIN pb_exit => pbc \in {"gripper", "done"}
        /\ pbc = "done" => DOMAIN pb_exit = Subgoals

====
